---- MODULE Spec2Model ----
(***************************************************************************)
(* Model of golib/httpclient.go (package common): the HTTPClient session   *)
(* negotiation (client ID + CSRF token, or API key) and request pipeline.  *)
(*                                                                         *)
(* Strings that the code slices or concatenates (client IDs, cookie and    *)
(* header names) are sequences of characters; the fixed prefixes           *)
(* "CSRF-Token-" and "X-CSRF-Token-" are one element each.  Strings that   *)
(* the code only compares with "" (API key, CSRF token, header names of    *)
(* the configuration) are TLA+ strings.                                    *)
(*                                                                         *)
(* An http.Response is delivered by httpClient.Do with its status line,    *)
(* headers and cookies; its body is a stream that is chosen when it is     *)
(* read (ResponseToBArray).                                                *)
(***************************************************************************)
EXTENDS Integers, Sequences, FiniteSets, TLC

VARIABLES
    conf,       \* HTTPClient.conf (HTTPClientConfig)
    apikey,     \* HTTPClient.apikey
    initDone,   \* HTTPClient.initDone
    initAtStart, \* initDone as the operation in progress (or last finished) found it
    id,         \* HTTPClient.id
    csrf,       \* HTTPClient.csrf
    pc,         \* "new" | "idle" | "wait" | "classify" | "panic"
    op,         \* operation in progress or last finished: "none" | "ctor" | "call"
    out,        \* the call's out argument is non-nil
    stack,      \* handleRequest invocations in progress, outermost first
    req,        \* request handed to httpClient.Do
    resp,       \* response last returned by httpClient.Do in this operation
    body,       \* body bytes read from the last response (NoBody: not read)
    result,     \* error returned by the last finished operation
    hret,       \* (status, error) pairs returned by the handleRequest invocations that just returned
    mainStatus, \* status of the response to the call's own request (0: none)
    sent,       \* requests sent during the operation: bootstraps, 403-triggered bootstraps, own requests
    endpoint,   \* HTTPClient.endpoint
    endURL,     \* the relative URL given to the last verb
    fullURL,    \* what formatURL made of it (empty: formatURL not called yet)
    gor         \* goroutines running handleRequest on the same client at once

vars == <<conf, apikey, initDone, initAtStart, id, csrf, pc, op, out, stack, req, resp,
          body, result, hret, mainStatus, sent, endpoint, endURL, fullURL, gor>>

----------------------------------------------------------------------------
(* Bounds *)

\* nested handleRequest invocations (handleRequest -> getCidAndCsrf -> handleRequest -> ...)
MaxDepth == 3
\* cookies in one response
MaxCookies == 2
\* slashes in a row at either end of a URL part
MaxSlashes == 2

----------------------------------------------------------------------------
(* Values *)

NoID == <<>>
IdShort == <<"a", "b">>
IdA == <<"a", "b", "c", "1", "2", "3">>
IdB == <<"x", "y", "z", "7", "8", "9">>
IDs == {NoID, IdShort, IdA, IdB}

\* s[:5]; the Go expression panics when len(s) < 5
first5(s) == SubSeq(s, 1, 5)

CookieName(s) == <<"CSRF-Token-">> \o s
CookieSet ==
    { [name |-> CookieName(first5(IdA)), value |-> "tok1"],
      [name |-> CookieName(first5(IdB)), value |-> ""] }

RECURSIVE SeqsUpTo(_, _)
SeqsUpTo(S, n) ==
    IF n = 0 THEN { <<>> }
    ELSE LET shorter == SeqsUpTo(S, n - 1)
         IN shorter \cup { Append(q, x) : q \in shorter, x \in S }

Statuses == {200, 204, 401, 403, 404, 500}

Responses ==
    [status : Statuses, cid : IDs, cookies : SeqsUpTo(CookieSet, MaxCookies)]

NoResp == [status |-> 0, cid |-> NoID, cookies |-> <<>>]
TransportFailure == [status |-> -1, cid |-> NoID, cookies |-> <<>>]

NoBody == "<unread>"
BodyErrString == "{\"error\":\"disk full\"}"
BodyErrNumber == "{\"error\":5}"
BodyNoErrField == "{\"msg\":\"x\"}"
BodyText == " oops\n"
Bodies == {"", BodyText, BodyErrString, BodyErrNumber, BodyNoErrField}

ErrNil == "nil"
ErrInvalidEndpoint == "Invalid endpoint or API call"
ErrInvalidCredentials == "Invalid username or password"
ErrInvalidCSRF == "Invalid CSRF token"
ErrInvalidAPIKey == "Invalid API key"
ErrHTTPStatus == "HTTP status"
ErrNoID == "Failed to get device ID"
ErrNoCSRF == "Failed to get CSRF token"
ErrTransport == "transport error"
ErrMarshal == "json: unsupported type"
ErrDecode == "json: cannot unmarshal"
ErrPending == "<pending>"

Slashes(n) == [i \in 1..n |-> "/"]
Host == <<"h", "t", "t", "p", ":", "/", "/", "h">>
Rest == <<"r", "e", "s", "t">>
Foo == <<"f", "o", "o">>
NoURL == <<>>

Endpoints == { Host \o Slashes(k) : k \in 0..MaxSlashes }
Prefixes == { <<>> } \cup { Slashes(i) \o Rest \o Slashes(j) : i, j \in 0..MaxSlashes }
Paths == { Slashes(k) \o Foo : k \in 0..MaxSlashes }

Goroutines == {1, 2}

Configs ==
    [URLPrefix : {Rest},
     HeaderAPIKeyName : {"", "X-API-Key"},
     Apikey : {"", "K"},
     HeaderClientKeyName : {"", "ClientID"},
     CsrfDisable : BOOLEAN]

NoHeaders == [apikey |-> "", cid |-> NoID, csrfName |-> <<>>, csrfVal |-> ""]
NoReq == [kind |-> "none", hdr |-> NoHeaders]
NoneSent == [boot |-> 0, refresh |-> 0, main |-> 0]

----------------------------------------------------------------------------
(* formatURL *)

\* strings.HasSuffix(s, c) for a one-character c
HasSuffix(s, c) == Len(s) > 0 /\ s[Len(s)] = c

\* strings.TrimLeft(s, c) for a one-character cutset c
RECURSIVE TrimLeft(_, _)
TrimLeft(s, c) == IF Len(s) > 0 /\ Head(s) = c THEN TrimLeft(Tail(s), c) ELSE s

\* variant: the prefix is appended as it is
formatURL_noTrim(ep, prefix, rel) ==
    LET u1 == IF HasSuffix(ep, "/") THEN ep ELSE ep \o <<"/">>
        u2 == u1 \o prefix
        u3 == IF HasSuffix(u2, "/") THEN u2 ELSE u2 \o <<"/">>
    IN u3 \o TrimLeft(rel, "/")

\* lines 361-371
formatURL(ep, prefix, rel) ==
    LET u1 == IF HasSuffix(ep, "/") THEN ep ELSE ep \o <<"/">>
        u2 == u1 \o TrimLeft(prefix, "/")
        u3 == IF HasSuffix(u2, "/") THEN u2 ELSE u2 \o <<"/">>
    IN u3 \o TrimLeft(rel, "/")

----------------------------------------------------------------------------
(* handleRequest, lines 296-307: credential attachment *)

AttachPanics(i, t) == t /= "" /\ Len(i) < 5

\* variant: the CSRF header name does not carry the ID prefix
AttachHeaders_noPrefix(cf, k, i, t) ==
    [apikey   |-> IF cf.HeaderAPIKeyName /= "" /\ k /= "" THEN k ELSE "",
     cid      |-> IF cf.HeaderClientKeyName /= "" /\ i /= NoID THEN i ELSE NoID,
     csrfName |-> IF t /= "" THEN <<"X-CSRF-Token-">> ELSE <<>>,
     csrfVal  |-> IF t /= "" THEN t ELSE ""]

AttachHeaders(cf, k, i, t) ==
    [apikey   |-> IF cf.HeaderAPIKeyName /= "" /\ k /= "" THEN k ELSE "",
     cid      |-> IF cf.HeaderClientKeyName /= "" /\ i /= NoID THEN i ELSE NoID,
     csrfName |-> IF t /= "" THEN <<"X-CSRF-Token-">> \o first5(i) ELSE <<>>,
     csrfVal  |-> IF t /= "" THEN t ELSE ""]

(* handleRequest, lines 317-331: credential extraction *)

\* response.Header.Get(name): the server sends the ID in the header "ClientID"
HeaderGet(r, name) == IF name = "ClientID" THEN r.cid ELSE NoID

NewID(cf, i, r) ==
    LET cid == HeaderGet(r, cf.HeaderClientKeyName)
    IN IF cid /= NoID /\ i /= cid THEN cid ELSE i

ExtractPanics(i, cookies) == Len(cookies) > 0 /\ i /= NoID /\ Len(i) < 5

RECURSIVE ScanCookies(_, _, _)
ScanCookies(cookies, i, t) ==
    IF cookies = <<>> THEN t
    ELSE IF i /= NoID /\ Head(cookies).name = CookieName(first5(i))
         THEN Head(cookies).value
         ELSE ScanCookies(Tail(cookies), i, t)

\* variant: the cookies are matched against the ID stored before the response
Extract_oldID(cf, i, t, r) ==
    [id   |-> NewID(cf, i, r),
     csrf |-> IF Len(i) >= 5 THEN ScanCookies(r.cookies, i, t) ELSE t]

\* variant: credentials are extracted from a 200 response only
Extract_onSuccess(cf, i, t, r) ==
    LET i2 == NewID(cf, i, r)
    IN IF r.status /= 200 THEN [id |-> i, csrf |-> t]
       ELSE [id   |-> i2,
             csrf |-> IF ExtractPanics(i2, r.cookies) THEN t ELSE ScanCookies(r.cookies, i2, t)]

\* lines 317-331 as a whole: the ID is updated first, the cookies are matched against the updated ID
Extract(cf, i, t, r) ==
    LET i2 == NewID(cf, i, r)
    IN [id   |-> i2,
        csrf |-> IF ExtractPanics(i2, r.cookies) THEN t ELSE ScanCookies(r.cookies, i2, t)]

(* handleRequest, lines 333-357: status classification *)

\* the 403 branch calls getCidAndCsrf before it returns
RefreshOn403(status, k) == status = 403 /\ k = ""

\* ResponseToBArray on a body stream: the bytes when first read, nothing once consumed
ResponseToBArray(b, consumed) == IF consumed THEN "" ELSE b

\* json.Unmarshal into map[string]interface{}; a body that is not a JSON object leaves the map empty
JSONUnmarshal(b) ==
    CASE b = BodyErrString  -> [error |-> [type |-> "string", val |-> "disk full"]]
      [] b = BodyErrNumber  -> [error |-> [type |-> "number", val |-> "5"]]
      [] b = BodyNoErrField -> [msg |-> [type |-> "string", val |-> "x"]]
      [] OTHER              -> <<>>

\* strings.TrimSpace
TrimSpace(b) == IF b = BodyText THEN "oops" ELSE b

\* fmt.Errorf(s) with no arguments: s is the format, and a trailing "%" is an incomplete verb
Errorf(s) == IF s = "100%" THEN "100%!(NOVERB)" ELSE s

\* err.(string) panics when the "error" field is not a string
OtherPanics(b) ==
    LET data == JSONUnmarshal(ResponseToBArray(b, FALSE))
    IN "error" \in DOMAIN data /\ data.error.type /= "string"

\* "Unknown HTTP status returned: " + response.Status
ErrUnknownStatus(status) ==
    IF status = 204 THEN "Unknown HTTP status returned: 204 No Content"
    ELSE "Unknown HTTP status returned: 500 Internal Server Error"

OtherError(status, b) ==
    LET data == JSONUnmarshal(ResponseToBArray(b, FALSE))
        text == TrimSpace(ResponseToBArray(b, TRUE))
    IN IF "error" \in DOMAIN data THEN Errorf(data.error.val)
       ELSE IF text /= "" THEN Errorf(text)
       ELSE ErrUnknownStatus(status)

\* variant: a 403 is "Invalid CSRF token" whatever the mode
StatusError_noMode(status, k, b) ==
    IF status = 404 THEN ErrInvalidEndpoint
    ELSE IF status = 401 THEN ErrInvalidCredentials
    ELSE IF status = 403 THEN ErrInvalidCSRF
    ELSE IF status /= 200 THEN OtherError(status, b)
    ELSE ErrNil

StatusError(status, k, b) ==
    IF status = 404 THEN ErrInvalidEndpoint
    ELSE IF status = 401 THEN ErrInvalidCredentials
    ELSE IF status = 403 THEN (IF k = "" THEN ErrInvalidCSRF ELSE ErrInvalidAPIKey)
    ELSE IF status /= 200 THEN OtherError(status, b)
    ELSE ErrNil

(* getCidAndCsrf *)

\* variant: the API-key test is missing
SkipBootstrap_never(k) == FALSE

\* variant: the bootstrap is never done by getCidAndCsrf itself
SkipBootstrap_always(k) == TRUE

\* lines 376-378
SkipBootstrap(k) == k /= ""

\* variant: the bootstrap succeeds without a client ID
GetCidResult_noIDCheck(cf, err, i, t) ==
    IF err /= ErrNil THEN err
    ELSE IF ~cf.CsrfDisable /\ t = "" THEN ErrNoCSRF
    ELSE ErrNil

\* variant: the token is required even when CSRF is disabled
GetCidResult_ignoresCsrfDisable(cf, err, i, t) ==
    IF err /= ErrNil THEN err
    ELSE IF i = NoID THEN ErrNoID
    ELSE IF t = "" THEN ErrNoCSRF
    ELSE ErrNil

\* lines 383-392, err being what handleRequest returned
GetCidResult(cf, err, i, t) ==
    IF err /= ErrNil THEN err
    ELSE IF i = NoID THEN ErrNoID
    ELSE IF ~cf.CsrfDisable /\ t = "" THEN ErrNoCSRF
    ELSE ErrNil

\* HTTPNewClient, lines 90-96: initDone once getCidAndCsrf returned gerr
CtorInitDone(gerr) == gerr = ErrNil

\* variant: initDone is set whatever the lazy bootstrap returned
LazyInitDone_always(done, gerr) == TRUE

\* _HTTPRequest, lines 263-267: initDone once the lazy getCidAndCsrf returned gerr
LazyInitDone(done, gerr) == done \/ gerr = ErrNil

(* _Request, lines 250-258 *)

\* json.Unmarshal(body, out) succeeds on a JSON object
DecodeOK(b) == b \in {BodyErrString, BodyErrNumber, BodyNoErrField}

\* variant: the body is decoded even when out is nil
RequestResult_alwaysDecode(err, status, o, b) ==
    IF err /= ErrNil THEN err
    ELSE IF status /= 200 THEN ErrHTTPStatus
    ELSE IF DecodeOK(ResponseToBArray(b, FALSE)) THEN ErrNil ELSE ErrDecode

RequestResult(err, status, o, b) ==
    IF err /= ErrNil THEN err
    ELSE IF status /= 200 THEN ErrHTTPStatus
    ELSE IF ~o THEN ErrNil
    ELSE IF DecodeOK(ResponseToBArray(b, FALSE)) THEN ErrNil ELSE ErrDecode

----------------------------------------------------------------------------
Frame(kind) == [kind |-> kind, status |-> 0]

TypeOK ==
    /\ conf \in Configs
    /\ apikey \in {"", "K"}
    /\ initDone \in BOOLEAN
    /\ initAtStart \in BOOLEAN
    /\ id \in IDs
    /\ csrf \in {"", "tok1"}
    /\ pc \in {"new", "idle", "wait", "classify", "panic"}
    /\ op \in {"none", "ctor", "call"}
    /\ out \in BOOLEAN
    /\ Len(stack) <= MaxDepth
    /\ resp \in Responses \cup {NoResp}
    /\ body \in Bodies \cup {NoBody}

\* a goroutine that is not inside handleRequest
GorIdle == [pc |-> "idle", hdr |-> NoHeaders, snap |-> [id |-> NoID, csrf |-> ""], resp |-> NoResp]

\* the HTTPClient literal of HTTPNewClient
Init ==
    /\ conf \in Configs
    /\ apikey = conf.Apikey
    /\ initDone = FALSE
    /\ initAtStart = FALSE
    /\ id = NoID
    /\ csrf = ""
    /\ pc = "new"
    /\ op = "none"
    /\ out = FALSE
    /\ stack = <<>>
    /\ req = NoReq
    /\ resp = NoResp
    /\ body = NoBody
    /\ result = ErrPending
    /\ hret = {}
    /\ mainStatus = 0
    /\ sent = NoneSent
    /\ endpoint = Host
    /\ endURL = NoURL
    /\ fullURL = NoURL
    /\ gor = [g \in Goroutines |-> GorIdle]

\* handleRequest up to httpClient.Do: attach the credentials and dispatch
SendRequest(kind, stk) ==
    /\ stack' = stk
    /\ resp' = NoResp
    /\ IF AttachPanics(id, csrf)
       THEN pc' = "panic" /\ req' = NoReq
       ELSE pc' = "wait" /\ req' = [kind |-> kind, hdr |-> AttachHeaders(conf, apikey, id, csrf)]

\* HTTPNewClient from its call of getCidAndCsrf
HTTPNewClient ==
    /\ pc = "new"
    /\ op' = "ctor"
    /\ IF SkipBootstrap(apikey)
       THEN /\ initDone' = TRUE
            /\ result' = ErrNil
            /\ pc' = "idle"
            /\ UNCHANGED <<stack, req, resp, sent>>
       ELSE /\ SendRequest("boot", <<Frame("ctor")>>)
            /\ sent' = [sent EXCEPT !.boot = 1]
            /\ UNCHANGED <<initDone, result>>
    /\ UNCHANGED <<conf, apikey, initAtStart, id, csrf, out, body, hret, mainStatus>>
    /\ UNCHANGED <<endpoint, endURL, fullURL, gor>>

\* Get/Post/Put/Delete -> _Request -> _HTTPRequest up to the first httpClient.Do
Request(in, o, rel) ==
    /\ pc = "idle"
    /\ op' = "call"
    /\ initAtStart' = initDone
    /\ out' = o
    /\ body' = NoBody
    /\ hret' = {}
    /\ mainStatus' = 0
    /\ IF in = "unsupported"
       THEN /\ result' = ErrMarshal
            /\ pc' = "idle"
            /\ sent' = NoneSent
            /\ resp' = NoResp
            /\ UNCHANGED <<initDone, stack, req, endURL, fullURL>>
       ELSE /\ result' = ErrPending
            /\ endURL' = rel
            /\ fullURL' = formatURL(endpoint, conf.URLPrefix, rel)
            /\ IF initDone \/ SkipBootstrap(apikey)
               THEN /\ initDone' = TRUE
                    /\ SendRequest("main", <<Frame("main")>>)
                    /\ sent' = [boot |-> 0, refresh |-> 0, main |-> 1]
               ELSE /\ initDone' = initDone
                    /\ SendRequest("boot", <<Frame("lazy")>>)
                    /\ sent' = [boot |-> 1, refresh |-> 0, main |-> 0]
    /\ UNCHANGED <<conf, apikey, id, csrf, endpoint, gor>>

\* variant: the error of the refresh is returned to the caller
CallerError_propagates(depth, err) == err

\* lines 340-341: what the outermost handleRequest of a chain of depth invocations returns when
\* the innermost returns err; a handleRequest that called getCidAndCsrf drops its result
CallerError(depth, err) == IF depth = 1 THEN err ELSE ErrInvalidCSRF

\* the innermost handleRequest returns err on the response r: unwind to the operation that started the chain
ReturnPath(err, r, b) ==
    LET base == stack[1].kind
        status == r.status
        berr == CallerError(Len(stack), err)
        bstatus == IF Len(stack) = 1 THEN status ELSE stack[1].status
        gerr == GetCidResult(conf, berr, id, csrf)
    IN /\ hret' = {[status |-> status, err |-> err]}
                  \cup {[status |-> stack[j].status, err |-> ErrInvalidCSRF] : j \in 1..(Len(stack) - 1)}
       /\ body' = b
       /\ IF base = "ctor"
          THEN /\ initDone' = CtorInitDone(gerr)
               /\ result' = gerr
               /\ pc' = "idle"
               /\ stack' = <<>>
               /\ resp' = r
               /\ UNCHANGED <<mainStatus, sent, req>>
          ELSE IF base = "lazy"
          THEN /\ initDone' = LazyInitDone(initDone, gerr)
               /\ SendRequest("main", <<Frame("main")>>)
               /\ sent' = [sent EXCEPT !.main = 1]
               /\ UNCHANGED <<result, mainStatus>>
          ELSE /\ mainStatus' = bstatus
               /\ result' = RequestResult(berr, bstatus, out, b)
               /\ pc' = "idle"
               /\ stack' = <<>>
               /\ resp' = r
               /\ UNCHANGED <<initDone, sent, req>>

\* httpClient.Do returns: transport error, or a response whose credentials are extracted
Do(r) ==
    /\ pc = "wait"
    /\ IF r = TransportFailure
       THEN /\ ReturnPath(ErrTransport, NoResp, NoBody)
            /\ UNCHANGED <<id, csrf>>
       ELSE LET e == Extract(conf, id, csrf, r)
            IN /\ id' = e.id
               /\ csrf' = e.csrf
               /\ resp' = r
               /\ req' = NoReq
               /\ stack' = [stack EXCEPT ![Len(stack)].status = r.status]
               /\ pc' = IF ExtractPanics(e.id, r.cookies) THEN "panic" ELSE "classify"
               /\ UNCHANGED <<initDone, body, result, hret, mainStatus, sent>>
    /\ UNCHANGED <<conf, apikey, initAtStart, op, out, endpoint, endURL, fullURL, gor>>

\* the body is read for a status outside 200/401/403/404, and for a 200 that _Request decodes
ReadsBody ==
    \/ resp.status \notin {200, 401, 403, 404}
    \/ resp.status = 200 /\ stack[1].kind = "main" /\ out

\* handleRequest from line 333
Classify(b) ==
    /\ pc = "classify"
    /\ b = NoBody <=> ~ReadsBody
    /\ IF RefreshOn403(resp.status, apikey)
       THEN /\ Len(stack) < MaxDepth
            /\ SendRequest("boot", Append(stack, Frame("refresh")))
            /\ sent' = [sent EXCEPT !.boot = @ + 1, !.refresh = @ + 1]
            /\ UNCHANGED <<initDone, body, result, hret, mainStatus>>
       ELSE IF resp.status \notin {200, 401, 403, 404} /\ OtherPanics(b)
       THEN /\ pc' = "panic"
            /\ body' = b
            /\ UNCHANGED <<initDone, stack, req, resp, result, hret, mainStatus, sent>>
       ELSE ReturnPath(StatusError(resp.status, apikey, b), resp, b)
    /\ UNCHANGED <<conf, apikey, initAtStart, id, csrf, op, out, endpoint, endURL, fullURL, gor>>

Next ==
    \/ HTTPNewClient
    \/ \E in \in {"nil", "value", "unsupported"}, o \in BOOLEAN : Request(in, o, Foo)
    \/ \E r \in Responses \cup {TransportFailure} : Do(r)
    \/ \E b \in Bodies \cup {NoBody} : Classify(b)

Spec == Init /\ [][Next]_vars

----------------------------------------------------------------------------
(* formatURL on its own, over endpoints, prefixes and relative URLs with 0..MaxSlashes *)
(* slashes at their ends; the client is one built with an API key                     *)

InitURL ==
    /\ conf \in [URLPrefix : Prefixes, HeaderAPIKeyName : {"X-API-Key"}, Apikey : {"K"},
                 HeaderClientKeyName : {""}, CsrfDisable : {FALSE}]
    /\ apikey = conf.Apikey
    /\ initDone = TRUE
    /\ initAtStart = FALSE
    /\ id = NoID
    /\ csrf = ""
    /\ pc = "idle"
    /\ op = "ctor"
    /\ out = FALSE
    /\ stack = <<>>
    /\ req = NoReq
    /\ resp = NoResp
    /\ body = NoBody
    /\ result = ErrNil
    /\ hret = {}
    /\ mainStatus = 0
    /\ sent = NoneSent
    /\ endpoint \in Endpoints
    /\ endURL = NoURL
    /\ fullURL = NoURL
    /\ gor = [g \in Goroutines |-> GorIdle]

FormatURL(rel) ==
    /\ fullURL = NoURL
    /\ endURL' = rel
    /\ fullURL' = formatURL(endpoint, conf.URLPrefix, rel)
    /\ UNCHANGED <<conf, apikey, initDone, initAtStart, id, csrf, pc, op, out, stack, req,
                   resp, body, result, hret, mainStatus, sent, endpoint, gor>>

NextURL == \E rel \in Paths : FormatURL(rel)

SpecURL == InitURL /\ [][NextURL]_vars

----------------------------------------------------------------------------
(* Two goroutines calling handleRequest (lines 295-331) on one initialised cookie/CSRF  *)
(* client.  The code takes no lock, so the reads and writes of c.id and c.csrf of the   *)
(* two interleave statement by statement.  Responses are 200s with IDs of at least 5   *)
(* characters, so that neither a refresh nor a panic interferes.                        *)

ConcResponses ==
    { r \in [status : {200}, cid : {NoID, IdA, IdB}, cookies : SeqsUpTo(CookieSet, 1)] : TRUE }

InitConc ==
    /\ conf = [URLPrefix |-> Rest, HeaderAPIKeyName |-> "", Apikey |-> "",
               HeaderClientKeyName |-> "ClientID", CsrfDisable |-> FALSE]
    /\ apikey = conf.Apikey
    /\ initDone = TRUE
    /\ initAtStart = FALSE
    /\ id = IdA
    /\ csrf = "tok1"
    /\ pc = "idle"
    /\ op = "ctor"
    /\ out = FALSE
    /\ stack = <<>>
    /\ req = NoReq
    /\ resp = NoResp
    /\ body = NoBody
    /\ result = ErrNil
    /\ hret = {}
    /\ mainStatus = 0
    /\ sent = NoneSent
    /\ endpoint = Host
    /\ endURL = NoURL
    /\ fullURL = NoURL
    /\ gor = [g \in Goroutines |-> GorIdle]

ConcUnchanged ==
    UNCHANGED <<conf, apikey, initDone, initAtStart, pc, op, out, stack, req, resp, body,
                result, hret, mainStatus, sent, endpoint, endURL, fullURL>>

\* lines 296-301: the API-key header and the client-ID header (reads c.id)
AttachID(g) ==
    /\ gor[g].pc = "idle"
    /\ gor' = [gor EXCEPT ![g] =
                 [pc   |-> "attachCsrf",
                  hdr  |-> [AttachHeaders(conf, apikey, id, "") EXCEPT !.csrfName = <<>>],
                  snap |-> [id |-> id, csrf |-> csrf],
                  resp |-> NoResp]]
    /\ UNCHANGED <<id, csrf>>
    /\ ConcUnchanged

\* lines 305-307: the CSRF header (reads c.csrf and c.id), then httpClient.Do is entered
AttachCSRF(g) ==
    /\ gor[g].pc = "attachCsrf"
    /\ ~AttachPanics(id, csrf)
    /\ LET h == AttachHeaders(conf, apikey, id, csrf)
       IN gor' = [gor EXCEPT ![g].pc = "wait",
                             ![g].hdr.csrfName = h.csrfName,
                             ![g].hdr.csrfVal = h.csrfVal]
    /\ UNCHANGED <<id, csrf>>
    /\ ConcUnchanged

\* line 310: httpClient.Do returns the response r
DoConc(g, r) ==
    /\ gor[g].pc = "wait"
    /\ gor' = [gor EXCEPT ![g].pc = "extractID", ![g].resp = r]
    /\ UNCHANGED <<id, csrf>>
    /\ ConcUnchanged

\* lines 317-321: writes c.id
ExtractID(g) ==
    /\ gor[g].pc = "extractID"
    /\ id' = NewID(conf, id, gor[g].resp)
    /\ gor' = [gor EXCEPT ![g].pc = "extractCsrf"]
    /\ UNCHANGED csrf
    /\ ConcUnchanged

\* lines 323-331: reads c.id, writes c.csrf; the 200 is then returned (line 357)
ExtractCSRF(g) ==
    /\ gor[g].pc = "extractCsrf"
    /\ ~ExtractPanics(id, gor[g].resp.cookies)
    /\ csrf' = ScanCookies(gor[g].resp.cookies, id, csrf)
    /\ gor' = [gor EXCEPT ![g] = GorIdle]
    /\ UNCHANGED id
    /\ ConcUnchanged

NextConc ==
    \/ \E g \in Goroutines : AttachID(g)
    \/ \E g \in Goroutines : AttachCSRF(g)
    \/ \E g \in Goroutines, r \in ConcResponses : DoConc(g, r)
    \/ \E g \in Goroutines : ExtractID(g)
    \/ \E g \in Goroutines : ExtractCSRF(g)

SpecConc == InitConc /\ [][NextConc]_vars

----------------------------------------------------------------------------
(* Properties *)

Returned == pc = "idle" /\ op = "call"

\* positions of the cookies of r named "CSRF-Token-" + first 5 characters of i
MatchingCookies(r, i) ==
    { j \in 1..Len(r.cookies) : r.cookies[j].name = CookieName(first5(i)) }

\* the stored credentials are those the response r carries
CarriesCredentials(r) ==
    /\ (conf.HeaderClientKeyName = "ClientID" /\ r.cid /= NoID) => id = r.cid
    /\ (Len(id) >= 5 /\ MatchingCookies(r, id) /= {}) =>
          LET first == CHOOSE j \in MatchingCookies(r, id) :
                           \A k \in MatchingCookies(r, id) : j <= k
          IN csrf = r.cookies[first].value

\* C1 (as claimed): in cookie/CSRF mode one call triggers at most one bootstrap
\* because of a 403; a bootstrap request answered with 403 issues no further bootstrap.
C1_SingleRefresh == op = "call" => sent.refresh <= 1

\* C2: in cookie/CSRF mode the call's own request is sent at most once; when it was
\* answered with 403 the call returns "Invalid CSRF token" whatever the refresh
\* bootstrap returned, and no own request is in flight while a refresh is in progress.
C2_403NotResent ==
    /\ sent.main <= 1
    /\ (Len(stack) > 1 => req.kind /= "main")
    /\ (Returned /\ apikey = "" /\ mainStatus = 403) =>
          (result = ErrInvalidCSRF /\ sent.main = 1 /\ sent.refresh >= 1)

\* a call whose request got 403 returned "Invalid CSRF token" after a refresh that succeeded
C2_Witness ==
    /\ Returned /\ apikey = "" /\ mainStatus = 403
    /\ result = ErrInvalidCSRF
    /\ resp.status = 200 /\ id = IdA /\ csrf = "tok1"

\* C3 (as claimed): with a non-empty API key the stored clientID and csrfToken stay
\* empty and no request carries a client-ID header or an X-CSRF-Token header.
C3_ApiKeyNoSession ==
    apikey /= "" =>
        /\ id = NoID
        /\ csrf = ""
        /\ req.hdr.cid = NoID
        /\ req.hdr.csrfName = <<>>

\* C4: with a non-empty API key no bootstrap request is ever sent: construction
\* succeeds without a request, and a 403 gives "Invalid API key" without a refresh.
C4_ApiKeyNoBootstrap ==
    apikey /= "" =>
        /\ sent.boot = 0
        /\ sent.refresh = 0
        /\ req.kind /= "boot"
        /\ Len(stack) <= 1
        /\ (pc = "idle" /\ op = "ctor") => (result = ErrNil /\ initDone /\ resp = NoResp)
        /\ (Returned /\ mainStatus = 403) => result = ErrInvalidAPIKey

\* an API-key client got a 403 on a call and returned "Invalid API key"
C4_Witness ==
    /\ apikey /= ""
    /\ Returned /\ mainStatus = 403 /\ result = ErrInvalidAPIKey
    /\ initDone
    /\ sent = [boot |-> 0, refresh |-> 0, main |-> 1]

\* C5 (as claimed): the client never panics on anything the server sends.
C5_NeverPanics == pc /= "panic"

\* C6: once a response's credentials are extracted, the stored ID is the response's
\* non-empty client-ID header, the stored token is the value of the first cookie named
\* "CSRF-Token-" + first 5 characters of that stored ID when there is one, and with no
\* stored ID no token is stored.
C6_ExtractionOrder ==
    pc = "classify" =>
        /\ CarriesCredentials(resp)
        /\ id = NoID => csrf = ""

\* fresh session, header ClientID: abc123 and cookie CSRF-Token-abc12=tok1
C6_Witness ==
    /\ pc = "classify" /\ op = "ctor" /\ sent = [boot |-> 1, refresh |-> 0, main |-> 0]
    /\ resp.cid = IdA
    /\ resp.cookies = << [name |-> CookieName(<<"a", "b", "c", "1", "2">>), value |-> "tok1"] >>
    /\ id = IdA /\ csrf = "tok1"

\* C7: an operation that ends on a 401, 403, 404 or 5xx response returns an error and
\* leaves the session state updated to the credentials that response carried.
C7_ExtractionOnErrors ==
    (pc = "idle" /\ resp.status \in {401, 403, 404, 500}) =>
        /\ result /= ErrNil
        /\ CarriesCredentials(resp)

\* a never-initialised client holds the credentials carried by the 401 that failed its call
C7_Witness ==
    /\ Returned /\ ~initDone /\ sent.refresh = 0
    /\ resp.status = 401 /\ resp.cid = IdA /\ MatchingCookies(resp, IdA) /= {}
    /\ result = ErrInvalidCredentials
    /\ id = IdA /\ csrf = "tok1"

\* C8: what handleRequest returns is fixed by the status and the auth mode: 200 no error,
\* 401 invalid credentials, 404 invalid endpoint, 403 invalid API key with an API key
\* and invalid CSRF token without.
C8_StatusClassification ==
    \A h \in hret :
        /\ h.status = 200 => h.err = ErrNil
        /\ h.status = 401 => h.err = ErrInvalidCredentials
        /\ h.status = 404 => h.err = ErrInvalidEndpoint
        /\ h.status = 403 =>
              h.err = (IF apikey = "" THEN ErrInvalidCSRF ELSE ErrInvalidAPIKey)

\* a 403 classified in API-key mode while a client ID and a token are stored
C8_Witness ==
    /\ Returned
    /\ [status |-> 403, err |-> ErrInvalidAPIKey] \in hret
    /\ id = IdA /\ csrf = "tok1"

\* C9 (as claimed): for a status outside 200/401/403/404 the error is the "error" string
\* field of a JSON body, else the trimmed body text when not empty, else the unknown
\* status error.
C9_OtherErrorPriority ==
    \A h \in hret :
        h.status \in {204, 500} =>
            h.err = (IF body = BodyErrString THEN "disk full"
                     ELSE IF TrimSpace(body) /= "" THEN TrimSpace(body)
                     ELSE ErrUnknownStatus(h.status))

\* C10: a high-level verb returns no error only on status 200; with a nil out the body
\* of a 200 is not read and the call succeeds; with a non-nil out the body is read and
\* an undecodable body gives a decode error.
C10_SuccessOnly200 ==
    Returned =>
        /\ result = ErrNil => mainStatus = 200
        /\ (mainStatus = 200 /\ ~out) => (result = ErrNil /\ body = NoBody)
        /\ (mainStatus = 200 /\ out) =>
              /\ body \in Bodies
              /\ body \in {"", BodyText} => result = ErrDecode
              /\ body = BodyNoErrField => result = ErrNil

\* a 200 answered to a call with a nil out
C10_Witness ==
    /\ Returned /\ mainStatus = 200 /\ ~out
    /\ result = ErrNil
    /\ sent.main = 1

\* the lazy bootstrap's handleRequest returned without error and the stored credentials pass
BootstrapPassed ==
    /\ hret = {[status |-> 200, err |-> ErrNil]}
    /\ id /= NoID
    /\ (conf.CsrfDisable \/ csrf /= "")

\* C11: a call that finds initDone false does one bootstrap (not counting 403 refreshes)
\* before its own request, sets initDone exactly when that bootstrap succeeded and sends
\* its request either way, never returning the bootstrap's error; a call that finds
\* initDone true does no bootstrap of its own.
C11_LazyInit ==
    (op = "call" /\ result /= ErrMarshal) =>
        /\ initAtStart => (initDone /\ sent.boot = sent.refresh)
        /\ (~initAtStart /\ pc = "wait" /\ req.kind = "main") =>
              /\ sent.boot >= 1
              /\ initDone <=> BootstrapPassed
        /\ (~initAtStart /\ pc /= "panic") => sent.boot = sent.refresh + 1
        /\ Returned => (sent.main = 1 /\ result \notin {ErrNoID, ErrNoCSRF})

\* the lazy bootstrap failed, initDone stayed false, and the call's request succeeded
C11_Witness ==
    /\ Returned /\ ~initAtStart /\ ~initDone
    /\ sent = [boot |-> 1, refresh |-> 0, main |-> 1]
    /\ mainStatus = 200 /\ result = ErrNil

\* C12 (as claimed): constructing a client in cookie/CSRF mode sends no request and leaves
\* clientID and csrfToken empty and initialized false.
C12_NoRequestAtConstruction ==
    (apikey = "" /\ op \in {"none", "ctor"}) =>
        /\ sent.boot = 0
        /\ req.kind = "none"
        /\ id = NoID /\ csrf = ""
        /\ ~initDone

\* C12 (amended): in cookie/CSRF mode the construction sends the first bootstrap request
\* and sets initDone exactly when it succeeds; a verb does a bootstrap of its own only
\* when it finds initDone false.
C12_BootstrapAtConstruction ==
    apikey = "" =>
        /\ op = "ctor" => sent.boot >= 1
        /\ (pc = "idle" /\ op = "ctor") => (initDone <=> result = ErrNil)
        /\ (op = "call" /\ sent.boot > sent.refresh) => ~initAtStart

\* the construction's bootstrap succeeded: credentials stored and initDone set before any verb
C12_Witness ==
    /\ apikey = "" /\ pc = "idle" /\ op = "ctor"
    /\ sent = [boot |-> 1, refresh |-> 0, main |-> 0]
    /\ initDone /\ id = IdA /\ csrf = "tok1"

\* C13 (as claimed): without an API key the bootstrap succeeds only with an ID and (CSRF
\* disabled or a token) stored, fails with the missing-ID error when no ID is stored and
\* with the missing-token error when CSRF is not disabled and no token is stored.
C13_BootstrapResult ==
    (apikey = "" /\ pc = "idle" /\ op = "ctor" /\ resp /= NoResp) =>
        /\ result = ErrNil => (id /= NoID /\ (conf.CsrfDisable \/ csrf /= ""))
        /\ id = NoID => result = ErrNoID
        /\ (id /= NoID /\ ~conf.CsrfDisable /\ csrf = "") => result = ErrNoCSRF
        /\ (id /= NoID /\ conf.CsrfDisable) => result = ErrNil

\* C13 (amended): the same, the three outcomes being those of a bootstrap whose request
\* was answered 200; otherwise the bootstrap fails with the request's own error.
C13_BootstrapResultOn200 ==
    (apikey = "" /\ pc = "idle" /\ op = "ctor" /\ resp /= NoResp) =>
        /\ result = ErrNil => (id /= NoID /\ (conf.CsrfDisable \/ csrf /= ""))
        /\ hret = {[status |-> 200, err |-> ErrNil]} =>
              /\ id = NoID => result = ErrNoID
              /\ (id /= NoID /\ ~conf.CsrfDisable /\ csrf = "") => result = ErrNoCSRF
              /\ (id /= NoID /\ conf.CsrfDisable) => result = ErrNil
              /\ (id /= NoID /\ csrf /= "") => result = ErrNil
        /\ hret /= {[status |-> 200, err |-> ErrNil]} =>
              result \notin {ErrNil, ErrNoID, ErrNoCSRF}

\* CSRF disabled: a 200 with an ID and no token is a successful bootstrap
C13_Witness ==
    /\ apikey = "" /\ pc = "idle" /\ op = "ctor"
    /\ conf.CsrfDisable /\ resp.status = 200
    /\ id = IdA /\ csrf = "" /\ result = ErrNil /\ initDone

\* C15: a dispatched request carries the API-key header iff its name and the key are
\* configured, the client-ID header with the stored ID iff a header name is configured
\* and an ID is stored, and the header "X-CSRF-Token-" + first 5 characters of the stored
\* ID with the stored token iff a token is stored.
C15_CredentialAttachment ==
    pc = "wait" =>
        /\ req.hdr.apikey = "K" <=> (conf.HeaderAPIKeyName = "X-API-Key" /\ apikey = "K")
        /\ req.hdr.apikey \in {"", "K"}
        /\ IF conf.HeaderClientKeyName = "ClientID" /\ id /= NoID
           THEN req.hdr.cid = id ELSE req.hdr.cid = NoID
        /\ IF csrf /= ""
           THEN /\ Len(id) >= 5
                /\ req.hdr.csrfName = <<"X-CSRF-Token-", id[1], id[2], id[3], id[4], id[5]>>
                /\ req.hdr.csrfVal = csrf
           ELSE req.hdr.csrfName = <<>> /\ req.hdr.csrfVal = ""
        /\ (id = NoID /\ csrf = "") => (req.hdr.cid = NoID /\ req.hdr.csrfName = <<>>)

\* a call's request carrying ClientID: abc123 and X-CSRF-Token-abc12: tok1
C15_Witness ==
    /\ pc = "wait" /\ req.kind = "main"
    /\ req.hdr.cid = IdA
    /\ req.hdr.csrfName = <<"X-CSRF-Token-", "a", "b", "c", "1", "2">>
    /\ req.hdr.csrfVal = "tok1"

\* C17 (as claimed): a bootstrap request carries no client-ID header and no X-CSRF-Token
\* header, at first initialization and as the refresh after a 403.
C17_BootstrapUnauthenticated ==
    (pc = "wait" /\ req.kind = "boot") =>
        /\ req.hdr.cid = NoID
        /\ req.hdr.csrfName = <<>>

\* C19 (as claimed): a stored token is the value of a cookie named "CSRF-Token-" + first
\* 5 characters of the stored client ID.
C19_TokenScopedToID ==
    csrf /= "" =>
        /\ Len(id) >= 5
        /\ \E c \in CookieSet : c.value = csrf /\ c.name = CookieName(first5(id))

\* C20 (as claimed): in cookie/CSRF mode initDone implies a stored ID and (CSRF disabled
\* or a stored token).
C20_InitImpliesCredentials ==
    (apikey = "" /\ initDone) => (id /= NoID /\ (conf.CsrfDisable \/ csrf /= ""))

\* C20 (amended): in cookie/CSRF mode initDone implies a stored ID; the credentials are
\* usable (ID, and token unless CSRF is disabled) in the step that sets initDone, the
\* token may be emptied later by a matching cookie with an empty value; initDone never
\* returns to false.
C20_InitImpliesID ==
    /\ [](apikey = "" /\ initDone => id /= NoID)
    /\ [][(apikey = "" /\ ~initDone /\ initDone') =>
             (id' /= NoID /\ (conf.CsrfDisable \/ csrf' /= ""))]_vars
    /\ [][initDone => initDone']_vars

\* an initialised client whose token was emptied by the cookie CSRF-Token-xyz78 with an empty value
C20_Witness ==
    /\ apikey = "" /\ initDone /\ ~conf.CsrfDisable
    /\ id = IdB /\ csrf = ""
    /\ MatchingCookies(resp, IdB) /= {}

\* s without its trailing "/"s
RECURSIVE TrimRightSlashes(_)
TrimRightSlashes(s) ==
    IF HasSuffix(s, "/") THEN TrimRightSlashes(SubSeq(s, 1, Len(s) - 1)) ELSE s

\* C14: for endpoint "http://h" or "http://h/", prefix "rest", "/rest/" or "rest/" and
\* relative URL "foo" or "/foo", formatURL returns "http://h/rest/foo".
C14_JoinExamples ==
    ( /\ fullURL /= NoURL
      /\ endpoint \in {Host, Host \o <<"/">>}
      /\ conf.URLPrefix \in {Rest, <<"/">> \o Rest \o <<"/">>, Rest \o <<"/">>}
      /\ endURL \in {Foo, <<"/">> \o Foo} ) =>
        fullURL = <<"h", "t", "t", "p", ":", "/", "/", "h", "/",
                    "r", "e", "s", "t", "/", "f", "o", "o">>

\* "http://h/" + "/rest/" + "/foo"
C14_Witness ==
    /\ endpoint = Host \o <<"/">>
    /\ conf.URLPrefix = <<"/">> \o Rest \o <<"/">>
    /\ endURL = <<"/">> \o Foo
    /\ fullURL = Host \o <<"/">> \o Rest \o <<"/">> \o Foo

\* C16 (as claimed): the credential headers of a request in flight are those of the one
\* (clientID, csrfToken) state the client was in when the request's handleRequest began.
C16_ConsistentCredentials ==
    \A g \in Goroutines :
        gor[g].pc = "wait" =>
            /\ gor[g].hdr.cid = gor[g].snap.id
            /\ gor[g].hdr.csrfVal = gor[g].snap.csrf
            /\ gor[g].hdr.csrfName =
                  (IF gor[g].snap.csrf = "" THEN <<>>
                   ELSE <<"X-CSRF-Token-">> \o first5(gor[g].snap.id))

\* C18 (as claimed): whatever the slashes at the ends of the endpoint, the prefix and the
\* relative URL, formatURL puts exactly one "/" between endpoint and prefix and exactly
\* one between prefix and relative URL.
C18_SlashNormalization ==
    (fullURL /= NoURL /\ TrimLeft(conf.URLPrefix, "/") /= <<>>) =>
        fullURL = TrimRightSlashes(endpoint) \o <<"/">>
                  \o TrimRightSlashes(TrimLeft(conf.URLPrefix, "/")) \o <<"/">>
                  \o TrimLeft(endURL, "/")

====
